---- MODULE Spec2Model ----
(***************************************************************************)
(* A model of main.py of gini-2.0: a Telegram bot that sends text and      *)
(* images to a generative model, classifies the verdict, keeps a per-user  *)
(* chat history and the last red-flag complaint in a process-wide dict     *)
(* (bot_user_data) and rewrites user_data.json after a mutation.           *)
(*                                                                         *)
(* Python values are modelled as follows.                                  *)
(*   - a dict is a function whose DOMAIN is its set of keys;               *)
(*   - a value that came out of json.loads is a pair <<tag, payload>>      *)
(*     with tag in "num", "str", "arr", "obj", "null";                     *)
(*   - a message text is a sequence of tokens, so that the substring test  *)
(*     of handle_chat is a membership test;                                *)
(*   - a function that can raise returns a record with a field "raised".   *)
(***************************************************************************)
EXTENDS Integers, Sequences, FiniteSets, TLC

VARIABLES
    bot_user_data,  \* the in-memory store: user id -> record (a dict)
    file,           \* user_data.json: [state, data]
    turns,          \* history variable: per user, the entries of every appended chat turn
    reds,           \* history variable: per user, the latest analysis classified RED
    save_failures,  \* how many times writing user_data.json has failed
    last,           \* what the handler that ran last did (its calls, its outcome)
    call,           \* the pure-function harness: the function applied and its arguments
    ret,            \* the pure-function harness: what the function returned
    threads         \* the worker threads: where each is in its handler, and its locals

vars == <<bot_user_data, file, turns, reds, save_failures, last, call, ret, threads>>

---------------------------------------------------------------------------
(* Configuration, main.py lines 19-22 *)

CONFIDENCE_THRESHOLD_FAKE == 65

CONFIDENCE_THRESHOLD_REAL == 60

CHAT_HISTORY_LIMIT == 6

\* The number of cells of the confidence bar (line 162).
BAR_CELLS == 10

---------------------------------------------------------------------------
(* Bounds of the model *)

\* The successful chat turns of one run, all users together (caps the
\* history variable).
MaxTurns == 4

\* The writes of user_data.json that may fail in one run.
MaxSaveFailures == 1

Users == {"u1", "u2"}

---------------------------------------------------------------------------
(* Python values *)

Num(n) == <<"num", n>>

Str(s) == <<"str", s>>

Arr(s) == <<"arr", s>>

Obj(d) == <<"obj", d>>

\* {} : the dict with no key.
EmptyDict == [k \in {} |-> 0]

\* d with key k set to v (d[k] = v).
DictSet(d, k, v) == [x \in (DOMAIN d) \cup {k} |-> IF x = k THEN v ELSE d[x]]

\* dict.get(key, default) on a Python dict.
DictGet(d, k, default) == IF k \in DOMAIN d THEN d[k] ELSE default

Min(a, b) == IF a < b THEN a ELSE b

Max(a, b) == IF a > b THEN a ELSE b

\* s[-n:] of a list.
LastN(s, n) == SubSeq(s, Max(1, Len(s) - n + 1), Len(s))

---------------------------------------------------------------------------
(* get_result_color, lines 144-148.  j is a json.loads value.  j.get raises *)
(* AttributeError unless j is a dict; float() raises on a non-numeric      *)
(* string, a list, a dict or None.                                         *)

\* float(x): [raised, val]; the model's numbers are integers.
PyFloat(x) ==
    IF x[1] = "num" THEN [raised |-> FALSE, val |-> x[2]]
    ELSE [raised |-> TRUE, val |-> 0]

\* The mutant of get_result_color: the FAKE threshold is exclusive.
get_result_color_strict(j) ==
    IF j[1] # "obj" THEN "RAISE"
    ELSE LET res  == DictGet(j[2], "result", Str("UNSURE"))
             conf == PyFloat(DictGet(j[2], "confidence", Num(0)))
         IN  IF conf.raised THEN "RAISE"
             ELSE IF res = Str("FAKE") /\ conf.val > CONFIDENCE_THRESHOLD_FAKE THEN "RED"
             ELSE IF res = Str("REAL") /\ conf.val >= CONFIDENCE_THRESHOLD_REAL THEN "GREEN"
             ELSE "YELLOW"

get_result_color(j) ==
    IF j[1] # "obj" THEN "RAISE"
    ELSE LET res  == DictGet(j[2], "result", Str("UNSURE"))
             conf == PyFloat(DictGet(j[2], "confidence", Num(0)))
         IN  IF conf.raised THEN "RAISE"
             ELSE IF res = Str("FAKE") /\ conf.val >= CONFIDENCE_THRESHOLD_FAKE THEN "RED"
             ELSE IF res = Str("REAL") /\ conf.val >= CONFIDENCE_THRESHOLD_REAL THEN "GREEN"
             ELSE "YELLOW"

---------------------------------------------------------------------------
(* format_analysis_reply, lines 151-167 *)

\* Python None, as .get returns it for a missing key.
PyNone == <<"null", "None">>

\* str(x) inside an f-string, for the strings and None the model uses.
PyStr(x) == x[2]

\* s.title() on the result words.
TitleCase(s) ==
    CASE s = "FAKE" -> "Fake"
      [] s = "REAL" -> "Real"
      [] s = "UNSURE" -> "Unsure"
      [] OTHER -> s

\* The mutant of PyRound: halves round up.
PyRoundHalfUp(n, d) == IF 2 * (n % d) >= d THEN (n \div d) + 1 ELSE n \div d

\* round(n / d) of Python 3: to the nearest integer, an exact half to the even one.
PyRound(n, d) ==
    LET q == n \div d
        r == n % d
    IN  IF 2 * r < d THEN q
        ELSE IF 2 * r > d THEN q + 1
        ELSE IF q % 2 = 0 THEN q ELSE q + 1

\* The title line's flag label, by colour (lines 155-160).
FlagLabel(color) ==
    CASE color = "RED" -> "Red Flag"
      [] color = "GREEN" -> "Green Flag"
      [] OTHER -> "Yellow Flag"

\* The reply as a record of its parts; cta is the line run_analysis appends.
format_analysis_reply(j) ==
    LET color == get_result_color(j)
    IN  IF color = "RAISE" THEN [raised |-> TRUE]
        ELSE
        LET result == DictGet(j[2], "result", Str("UNSURE"))
            conf   == DictGet(j[2], "confidence", Num(0))
            flags  == DictGet(j[2], "red_flags", Arr(<<>>))
            filled == PyRound(conf[2], BAR_CELLS)
        IN  IF result[1] # "str" \/ conf[1] # "num" THEN [raised |-> TRUE]
            ELSE [raised     |-> FALSE,
                  flag       |-> FlagLabel(color),
                  result     |-> TitleCase(result[2]),
                  confidence |-> conf[2],
                  filled     |-> Max(0, filled),
                  empty      |-> Max(0, BAR_CELLS - filled),
                  reason     |-> PyStr(DictGet(j[2], "reason", Str("N/A"))),
                  red_flags  |-> IF flags[1] = "arr" THEN flags[2] ELSE <<>>,
                  cta        |-> FALSE]

---------------------------------------------------------------------------
(* call_gemini_for_structured_analysis, lines 90-115.                      *)
(* remote is what model.generate_content did: [kind |-> "raise"] (a        *)
(* transport error), [kind |-> "blocked"] (resp.parts empty), or           *)
(* [kind |-> "text", text |-> t] with t either <<"garbage">> or            *)
(* <<"json", v>>, the text of the JSON value v.  logRaw and logErr say     *)
(* whether the log_event call of line 109 and of line 112 succeeds.        *)

\* The verdict of lines 93-95.
NoContentVerdict ==
    Obj([result |-> Str("UNSURE"), confidence |-> Num(0),
         reason |-> Str("No content provided."), red_flags |-> Arr(<<>>)])

\* The verdict of lines 113-115.
FallbackVerdict ==
    Obj([result |-> Str("UNSURE"), confidence |-> Num(40),
         reason |-> Str("AI error occurred."), red_flags |-> Arr(<<>>)])

\* json.loads(text): [raised, val].
json_loads(text) ==
    IF text[1] = "json" THEN [raised |-> FALSE, val |-> text[2]]
    ELSE [raised |-> TRUE, val |-> PyNone]

\* The except branch, lines 111-115: log, then the fallback verdict.
GatewayExcept(logErr) ==
    IF logErr THEN [raised |-> FALSE, val |-> FallbackVerdict, called |-> TRUE]
    ELSE [raised |-> TRUE, val |-> PyNone, called |-> TRUE]

\* The mutant of call_gemini_for_structured_analysis: no check for empty content.
call_gemini_no_short_circuit(query, img, remote, logRaw, logErr) ==
    IF remote.kind # "text" THEN GatewayExcept(logErr)
    ELSE IF ~logRaw THEN GatewayExcept(logErr)
    ELSE LET parsed == json_loads(remote.text)
         IN  IF parsed.raised THEN GatewayExcept(logErr)
             ELSE [raised |-> FALSE, val |-> parsed.val, called |-> TRUE]

call_gemini_for_structured_analysis(query, img, remote, logRaw, logErr) ==
    IF query = "" /\ ~img
    THEN [raised |-> FALSE, val |-> NoContentVerdict, called |-> FALSE]
    ELSE IF remote.kind # "text" THEN GatewayExcept(logErr)
    ELSE IF ~logRaw THEN GatewayExcept(logErr)
    ELSE LET parsed == json_loads(remote.text)
         IN  IF parsed.raised THEN GatewayExcept(logErr)
             ELSE [raised |-> FALSE, val |-> parsed.val, called |-> TRUE]

---------------------------------------------------------------------------
(* The pure-function harness: Init draws a function and its arguments,     *)
(* one action applies the function.                                        *)

\* The largest confidence the prompt allows (line 71).
MaxConfidence == 100

Results == {"FAKE", "REAL", "UNSURE"}

\* A verdict of the shape the prompt asks for (lines 69-76).
Verdict(result, confidence, reason) ==
    Obj([result |-> Str(result), confidence |-> Num(confidence),
         reason |-> Str(reason), red_flags |-> Arr(<<>>)])

\* Valid JSON that is not a verdict: a list, a string, an object whose
\* confidence is a word, an object with no key.
MalformedJson ==
    { Arr(<<>>), Str("hello"),
      Obj([result |-> Str("FAKE"), confidence |-> Str("high")]),
      Obj(EmptyDict) }

\* What model.generate_content can do, for the harness.
PureRemotes ==
    { [kind |-> "raise"], [kind |-> "blocked"],
      [kind |-> "text", text |-> <<"garbage">>] }
    \cup { [kind |-> "text", text |-> <<"json", v>>] : v \in MalformedJson }
    \cup { [kind |-> "text", text |-> <<"json", Verdict(r, c, "r1")>>] :
             r \in Results, c \in {0, 64, 65} }

ColorCalls ==
    { [fn |-> "color", j |-> Verdict(r, c, "r1")] : r \in Results, c \in 0..MaxConfidence }

GatewayCalls ==
    { [fn |-> "gateway", query |-> q, img |-> i, remote |-> r, logRaw |-> lr, logErr |-> le] :
        q \in {"", "win"}, i \in BOOLEAN, r \in PureRemotes, lr \in BOOLEAN, le \in BOOLEAN }

NoCall == [fn |-> "none"]

ApplyColor ==
    /\ call.fn = "color"
    /\ ret = NoCall
    /\ ret' = [fn |-> "color", val |-> get_result_color(call.j)]
    /\ UNCHANGED <<bot_user_data, file, turns, reds, save_failures, last, call, threads>>

ApplyGateway ==
    /\ call.fn = "gateway"
    /\ ret = NoCall
    /\ ret' = [fn |-> "gateway",
               out |-> call_gemini_for_structured_analysis(
                           call.query, call.img, call.remote, call.logRaw, call.logErr)]
    /\ UNCHANGED <<bot_user_data, file, turns, reds, save_failures, last, call, threads>>

---------------------------------------------------------------------------
(* The handlers.  A handler runs on a context: the store, the file, the    *)
(* outbound messaging calls made so far and the number of calls of         *)
(* save_user_data.  Every call of a collaborator (Telegram, the model, the *)
(* log file, the state file) can succeed or raise, so a function of the    *)
(* program is the SET of the results it can have.                          *)

Ctx(data, f, fails) == [data |-> data, file |-> f, fails |-> fails, calls |-> <<>>, writes |-> 0]

\* One outbound messaging call: bot.reply_to or bot.edit_message_text.
AddCall(ctx, api, text) == [ctx EXCEPT !.calls = Append(@, [api |-> api, text |-> text])]

\* The message texts.
TextAnalyzing == [kind |-> "placeholder"]

TextAnalysisError == [kind |-> "analysis_error"]

TextPhotoSearchError == [kind |-> "photo_search_error"]

TextDescribing == [kind |-> "describing"]

TextDescribeError == [kind |-> "describe_error"]

TextNoComplaint == [kind |-> "no_complaint"]

TextWelcome == [kind |-> "welcome"]

\* The mutant of save_user_data: the write is skipped.
save_user_data_skipped(ctx) == { [ctx |-> ctx, raised |-> FALSE] }

\* save_user_data, lines 51-53: open(.., "w") truncates, json.dump writes.
\* It can raise before the file is touched (open fails) or after the
\* truncation, leaving a partial document.
save_user_data(ctx) ==
    LET c == [ctx EXCEPT !.writes = @ + 1]
    IN  { [ctx |-> [c EXCEPT !.file = [state |-> "json", data |-> c.data]], raised |-> FALSE] }
        \cup
        IF ctx.fails < MaxSaveFailures
        THEN { [ctx |-> [c EXCEPT !.fails = @ + 1], raised |-> TRUE],
               [ctx |-> [c EXCEPT !.fails = @ + 1,
                                  !.file = [state |-> "partial", data |-> EmptyDict]],
                raised |-> TRUE] }
        ELSE {}

\* Line 186: the complaint text, as the tuple of its parts.
ComplaintText(content, j) ==
    <<"Content: ", content, "AI Analysis: ", PyStr(DictGet(j[2], "reason", PyNone))>>

\* The mutant of StoreComplaint: a complaint already stored is kept.
StoreComplaintKeepFirst(data, u, text) ==
    LET rec == DictGet(data, u, EmptyDict)
    IN  DictSet(data, u, DictSet(rec, "last_complaint", DictGet(rec, "last_complaint", text)))

\* The mutant of StoreComplaint: the record is replaced by one that holds the
\* complaint only.
StoreComplaintReplace(data, u, text) == DictSet(data, u, [last_complaint |-> text])

\* Line 187: bot_user_data.setdefault(u, {})["last_complaint"] = text
StoreComplaint(data, u, text) ==
    DictSet(data, u, DictSet(DictGet(data, u, EmptyDict), "last_complaint", text))

\* A result of run_analysis.
AnalysisResult(ctx, raised, phase, g, color, red) ==
    [ctx |-> ctx, raised |-> raised, phase |-> phase, verdict |-> g.val,
     called |-> g.called, color |-> color, red |-> red]

\* The except branch of run_analysis, lines 192-194: log, then edit the
\* placeholder to the generic error.  Either call can raise, and nothing
\* catches that.
AnalysisExcept(ctx, g, color, red) ==
    { AnalysisResult(ctx, TRUE, "FAILED", g, color, red) }
    \cup { AnalysisResult(AddCall(ctx, "edit_message_text", TextAnalysisError),
                          editRaised, "FAILED", g, color, red) : editRaised \in BOOLEAN }

\* Lines 190-191: edit the placeholder to the reply, log the success.
AnalysisEdit(ctx, reply, g, color, red) ==
    LET c == AddCall(ctx, "edit_message_text", [kind |-> "analysis", reply |-> reply])
    IN  { AnalysisResult(c, FALSE, "SUCCEEDED", g, color, red) }
        \cup AnalysisExcept(c, g, color, red)

\* Lines 184-191, after the gateway returned g.
AnalysisTry(ctx, u, content, g) ==
    IF g.raised THEN AnalysisExcept(ctx, g, "NONE", FALSE)
    ELSE
    LET reply == format_analysis_reply(g.val)
        color == get_result_color(g.val)
    IN  IF reply.raised THEN AnalysisExcept(ctx, g, "NONE", FALSE)
        ELSE IF color = "RED"
        THEN LET c == [ctx EXCEPT !.data = StoreComplaint(@, u, ComplaintText(content, g.val))]
             IN  UNION { IF s.raised
                         THEN AnalysisExcept(s.ctx, g, color, TRUE)
                         ELSE AnalysisEdit(s.ctx, [reply EXCEPT !.cta = TRUE], g, color, TRUE) :
                         s \in save_user_data(c) }
        ELSE AnalysisEdit(ctx, reply, g, color, FALSE)

\* What the model can answer to an analysis, in the handlers' runs.
Remotes ==
    { [kind |-> "raise"],
      [kind |-> "text", text |-> <<"garbage">>],
      [kind |-> "text", text |-> <<"json", Arr(<<>>)>>],
      [kind |-> "text", text |-> <<"json", Verdict("FAKE", 65, "scam")>>],
      [kind |-> "text", text |-> <<"json", Verdict("FAKE", 64, "odd")>>],
      [kind |-> "text", text |-> <<"json", Verdict("REAL", 60, "fine")>>] }

\* The results the gateway can have for one request.
GatewayResults(content, img) ==
    { call_gemini_for_structured_analysis(content, img, r, lr, le) :
        r \in Remotes, lr \in BOOLEAN, le \in BOOLEAN }

NoVerdict == [raised |-> TRUE, val |-> PyNone, called |-> FALSE]

\* run_analysis, lines 179-194.  The placeholder is sent outside the try.
run_analysis(ctx, u, content, img) ==
    LET c == AddCall(ctx, "reply_to", TextAnalyzing)
    IN  { AnalysisResult(c, TRUE, "NONE", NoVerdict, "NONE", FALSE) }
        \cup UNION { AnalysisTry(c, u, content, g) : g \in GatewayResults(content, img) }

\* send_safe_reply, lines 170-174: a failed send is logged; the log can raise.
send_safe_reply(ctx, text) ==
    { [ctx |-> AddCall(ctx, "reply_to", text), raised |-> r] : r \in BOOLEAN }

---------------------------------------------------------------------------
(* The chat path, lines 131-140 and 279-295 *)

\* The warning sign that call_gemini_for_chat puts in its error string and
\* that handle_chat looks for (lines 140 and 288).
Marker == "WARNING_SIGN"

ChatError == <<Marker, "The AI is currently unavailable.">>

\* marker in response
Contains(response, token) == \E i \in DOMAIN response : response[i] = token

\* What chat.send_message can do: raise, answer, or answer with a text that
\* itself holds the warning sign.
ChatRemotes(n) ==
    { [kind |-> "raise"],
      [kind |-> "text", text |-> <<"answer", ToString(n)>>],
      [kind |-> "text", text |-> <<"answer", ToString(n), Marker>>] }

\* call_gemini_for_chat: an exception becomes the error string, after a
\* log_event call that can itself raise.
call_gemini_for_chat(query, history, remote) ==
    IF remote.kind = "text" THEN { [raised |-> FALSE, val |-> remote.text] }
    ELSE { [raised |-> FALSE, val |-> ChatError], [raised |-> TRUE, val |-> <<>>] }

\* The mutant of EnsureRecord: the record is created without the membership test.
EnsureRecordReset(data, u) == DictSet(data, u, [history |-> <<>>])

\* Lines 283-284: the record is created on the first chat message.
EnsureRecord(data, u) ==
    IF u \in DOMAIN data THEN data ELSE DictSet(data, u, [history |-> <<>>])

\* The two entries of one turn, lines 290-291.
TurnEntries(text, response) ==
    << [role |-> "user", parts |-> <<text>>], [role |-> "model", parts |-> <<response>>] >>

\* The mutant of AppendTurn: the list is cut to its first entries.
AppendTurnKeepFirst(data, u, text, response) ==
    LET history == DictGet(data[u], "history", <<>>) \o TurnEntries(text, response)
    IN  DictSet(data, u, DictSet(data[u], "history",
                                 SubSeq(history, 1, Min(Len(history), CHAT_HISTORY_LIMIT))))

\* The mutant of AppendTurn: one entry less is kept.
AppendTurnOddLimit(data, u, text, response) ==
    LET history == DictGet(data[u], "history", <<>>) \o TurnEntries(text, response)
    IN  DictSet(data, u, DictSet(data[u], "history", LastN(history, CHAT_HISTORY_LIMIT - 1)))

\* Lines 285 and 289-293: history.extend(...), then the last entries kept.
AppendTurn(data, u, text, response) ==
    LET history == DictGet(data[u], "history", <<>>) \o TurnEntries(text, response)
    IN  DictSet(data, u, DictSet(data[u], "history", LastN(history, CHAT_HISTORY_LIMIT)))

ChatResult(ctx, raised, response, appended) ==
    [ctx |-> ctx, raised |-> raised, response |-> response, appended |-> appended]

\* Line 295: the closing log_event call, which can raise.
ChatLog(ctx, response, appended) ==
    { ChatResult(ctx, r, response, appended) : r \in BOOLEAN }

\* The mutant of ChatAfterReply: the turn is appended whatever the response.
ChatAfterReplyAlways(ctx, u, text, response) ==
    UNION { IF s.raised THEN { ChatResult(s.ctx, TRUE, response, TRUE) }
            ELSE ChatLog(s.ctx, response, TRUE) :
            s \in save_user_data([ctx EXCEPT !.data = AppendTurn(@, u, text, response)]) }

\* Lines 288-295, after the reply was sent.
ChatAfterReply(ctx, u, text, response) ==
    IF ~Contains(response, Marker)
    THEN UNION { IF s.raised THEN { ChatResult(s.ctx, TRUE, response, TRUE) }
                 ELSE ChatLog(s.ctx, response, TRUE) :
                 s \in save_user_data([ctx EXCEPT !.data = AppendTurn(@, u, text, response)]) }
    ELSE ChatLog(ctx, response, FALSE)

\* handle_chat, lines 280-295.
handle_chat_results(ctx, u, text, remote) ==
    LET c == [ctx EXCEPT !.data = EnsureRecord(@, u)]
        history == DictGet(c.data[u], "history", <<>>)
    IN  UNION { IF r.raised THEN { ChatResult(c, TRUE, <<>>, FALSE) }
                ELSE UNION { IF s.raised THEN { ChatResult(s.ctx, TRUE, r.val, FALSE) }
                             ELSE ChatAfterReply(s.ctx, u, text, r.val) :
                             s \in send_safe_reply(c, [kind |-> "chat", response |-> r.val]) } :
                r \in call_gemini_for_chat(text, history, remote) }

---------------------------------------------------------------------------
(* The state machine: one update is handled at a time (bot.infinity_polling, *)
(* line 302); next_update takes the following one.                          *)

\* The worker threads telebot runs the handlers on.
ThreadIds == {1, 2}

\* A thread that has not taken its update yet.  hlive says that the thread's
\* local `history` is the list object the store holds for its user (hval is
\* the content of the list when it is another object); rlive says the same
\* of the record that setdefault returned.  overlapped and completed are
\* history fields: another handler ran while this one did; this handler
\* made its mutation of the store.
ThreadReady ==
    [pc |-> "ready", op |-> "none", user |-> "", missing |-> FALSE,
     hlive |-> FALSE, hval |-> <<>>, rlive |-> FALSE, verdict |-> PyNone,
     overlapped |-> FALSE, completed |-> FALSE]

Idle ==
    [op |-> "idle", user |-> "", content |-> "", img |-> FALSE, raised |-> FALSE,
     phase |-> "NONE", calls |-> <<>>, writes |-> 0, verdict |-> PyNone,
     called |-> FALSE, color |-> "NONE", response |-> <<>>]

\* load_user_data with no user_data.json: the empty store.
Init ==
    /\ bot_user_data = EmptyDict
    /\ file = [state |-> "absent", data |-> EmptyDict]
    /\ turns = [u \in Users |-> <<>>]
    /\ reds = [u \in Users |-> <<>>]
    /\ save_failures = 0
    /\ last = Idle
    /\ call = NoCall
    /\ ret = NoCall
    /\ threads = [t \in ThreadIds |-> ThreadReady]

Context == Ctx(bot_user_data, file, save_failures)

\* The handler ended: its effects on the store and the file, and its record.
Commit(ctx, rec) ==
    /\ bot_user_data' = ctx.data
    /\ file' = ctx.file
    /\ save_failures' = ctx.fails
    /\ last' = [rec EXCEPT !.calls = ctx.calls, !.writes = ctx.writes]
    /\ UNCHANGED <<call, ret, threads>>

\* The analysis ended: as Commit, and the history variable of RED analyses.
CommitAnalysis(op, u, content, img, res) ==
    /\ Commit(res.ctx, [Idle EXCEPT !.op = op, !.user = u, !.content = content, !.img = img,
                                    !.raised = res.raised, !.phase = res.phase,
                                    !.verdict = res.verdict, !.called = res.called,
                                    !.color = res.color])
    /\ reds' = IF res.red
               THEN [reds EXCEPT ![u] = << [content |-> content, verdict |-> res.verdict] >>]
               ELSE reds
    /\ UNCHANGED turns

\* The texts of a /search message: alone, or with something to analyse.
SearchTexts == { <<"/search">>, <<"/search", "win">> }

\* search_command, lines 213-219: text.split(' ', 1)[1], or "" on IndexError.
search_command(u, text) ==
    /\ last.op = "idle"
    /\ LET content == IF Len(text) > 1 THEN text[2] ELSE ""
       IN  \E res \in run_analysis(Context, u, content, FALSE) :
               CommitAnalysis("search", u, content, FALSE, res)

\* complaint_cmd, lines 223-232; the closing log_event call can raise.
complaint_cmd(u) ==
    /\ last.op = "idle"
    /\ LET complaint == DictGet(DictGet(bot_user_data, u, EmptyDict), "last_complaint", <<>>)
           text == IF complaint # <<>> THEN [kind |-> "complaint", complaint |-> complaint]
                   ELSE TextNoComplaint
       IN  \E s \in send_safe_reply(Context, text), logRaised \in BOOLEAN :
               Commit(s.ctx, [Idle EXCEPT !.op = "complaint", !.user = u,
                                          !.raised = s.raised \/ logRaised])
    /\ UNCHANGED <<turns, reds>>

\* send_welcome, lines 199-209.
send_welcome(u) ==
    /\ last.op = "idle"
    /\ \E s \in send_safe_reply(Context, TextWelcome), logRaised \in BOOLEAN :
           Commit(s.ctx, [Idle EXCEPT !.op = "start", !.user = u,
                                      !.raised = s.raised \/ logRaised])
    /\ UNCHANGED <<turns, reds>>

\* The chat turns appended so far, over the users of S.
RECURSIVE TurnsMade(_)
TurnsMade(S) ==
    IF S = {} THEN 0
    ELSE LET u == CHOOSE x \in S : TRUE
         IN  (Len(turns[u]) \div 2) + TurnsMade(S \ {u})

\* handle_chat as an action; the n-th message a user gets into the history
\* carries the text n, so every entry of a history is told from the others.
handle_chat(u) ==
    /\ last.op = "idle"
    /\ TurnsMade(Users) < MaxTurns
    /\ LET n == (Len(turns[u]) \div 2) + 1
           text == <<"message", ToString(n)>>
       IN  \E remote \in ChatRemotes(n) :
           \E res \in handle_chat_results(Context, u, text, remote) :
               /\ Commit(res.ctx, [Idle EXCEPT !.op = "chat", !.user = u,
                                               !.raised = res.raised,
                                               !.response = res.response])
               /\ turns' = IF res.appended
                           THEN [turns EXCEPT ![u] = @ \o TurnEntries(text, res.response)]
                           ELSE turns
    /\ UNCHANGED reds

\* The loop of infinity_polling: the next update is taken.
next_update ==
    /\ last.op # "idle"
    /\ last' = Idle
    /\ UNCHANGED <<bot_user_data, file, turns, reds, save_failures, call, ret, threads>>

---------------------------------------------------------------------------
(* handle_photo, lines 238-276 *)

\* The captions of a photo: none, the command alone, the command and a text.
Captions == { <<>>, <<"/search">>, <<"/search", "win">> }

\* The except branch of the /search route, lines 257-259: log (which can
\* raise), then an error reply through send_safe_reply.
PhotoSearchExcept(res) ==
    { [res EXCEPT !.raised = TRUE] }
    \cup { [res EXCEPT !.ctx = s.ctx, !.raised = s.raised] :
             s \in send_safe_reply(res.ctx, TextPhotoSearchError) }

\* The /search route, lines 242-260: the image is downloaded, then analysed.
photo_search_results(ctx, u, content) ==
    PhotoSearchExcept(AnalysisResult(ctx, TRUE, "NONE", NoVerdict, "NONE", FALSE))
    \cup UNION { IF res.raised THEN PhotoSearchExcept(res) ELSE { res } :
                 res \in run_analysis(ctx, u, content, TRUE) }

\* The except branch of the description route, lines 274-276.
DescribeExcept(ctx) ==
    { [ctx |-> ctx, raised |-> TRUE] }
    \cup { [ctx |-> AddCall(ctx, "edit_message_text", TextDescribeError), raised |-> r] :
             r \in BOOLEAN }

\* call_gemini_for_image_description, lines 118-128: the description, or
\* the error string after a log_event call that can raise.
call_gemini_for_image_description ==
    { [raised |-> FALSE, val |-> [kind |-> "description"]],
      [raised |-> FALSE, val |-> [kind |-> "description_error"]],
      [raised |-> TRUE, val |-> [kind |-> "none"]] }

\* The description route, lines 263-276.
photo_describe_results(ctx) ==
    LET c == AddCall(ctx, "reply_to", TextDescribing)
    IN  { [ctx |-> c, raised |-> TRUE] }
        \cup DescribeExcept(c)
        \cup UNION { IF d.raised THEN DescribeExcept(c)
                     ELSE { [ctx |-> AddCall(c, "edit_message_text", d.val), raised |-> FALSE] }
                          \cup DescribeExcept(AddCall(c, "edit_message_text", d.val)) :
                     d \in call_gemini_for_image_description }

handle_photo(u, caption) ==
    /\ last.op = "idle"
    /\ IF Len(caption) > 0 /\ caption[1] = "/search"
       THEN LET content == IF Len(caption) > 1 THEN caption[2] ELSE ""
            IN  \E res \in photo_search_results(Context, u, content) :
                    CommitAnalysis("photo_search", u, content, TRUE, res)
       ELSE /\ \E res \in photo_describe_results(Context) :
                    Commit(res.ctx, [Idle EXCEPT !.op = "photo_describe", !.user = u,
                                                 !.img = TRUE, !.raised = res.raised])
            /\ UNCHANGED <<turns, reds>>

---------------------------------------------------------------------------
(* The state file across a start of the process, lines 43-56.  A file is   *)
(* [state |-> "absent"], "partial" (a text that is no JSON document: an    *)
(* empty or cut-off file), "json" (the document of the store in data) or   *)
(* "json_list" (a valid JSON document whose value is a list).              *)

\* load_user_data, lines 43-48: FileNotFoundError and JSONDecodeError give
\* {}; whatever json.load returns is returned as it is.
load_user_data(f) ==
    CASE f.state = "json" -> [kind |-> "dict", val |-> f.data]
      [] f.state = "json_list" -> [kind |-> "list", val |-> Arr(<<>>)]
      [] OTHER -> [kind |-> "dict", val |-> EmptyDict]

\* save_user_data, lines 51-53, when the process stops inside it: before
\* open(.., "w") has truncated the file, between the truncation and the end
\* of json.dump, or after the file was closed.
save_user_data_interrupted(f, data, point) ==
    CASE point = "opening" -> f
      [] point = "dumping" -> [state |-> "partial", data |-> EmptyDict]
      [] OTHER -> [state |-> "json", data |-> data]

\* The points at which the process can stop in save_user_data.
SavePoints == {"opening", "dumping", "closed"}

\* A store after one chat turn of u1, and that store after a RED analysis.
StoreOneTurn ==
    AppendTurn(EnsureRecord(EmptyDict, "u1"), "u1", <<"message", "1">>, <<"answer", "1">>)

StoreTurnAndComplaint ==
    StoreComplaint(StoreOneTurn, "u1", ComplaintText("win", Verdict("FAKE", 65, "scam")))

\* The files the process can find at its start.
StartFiles ==
    { [state |-> "absent", data |-> EmptyDict],
      [state |-> "partial", data |-> EmptyDict],
      [state |-> "json_list", data |-> EmptyDict],
      [state |-> "json", data |-> EmptyDict],
      [state |-> "json", data |-> StoreOneTurn] }

LoadCalls == { [fn |-> "load", file |-> f] : f \in StartFiles }

\* The saves that can be interrupted: the file as the last save left it and
\* the store as the mutation left it.
CrashCalls ==
    { [fn |-> "save_crash", file |-> c[1], data |-> c[2], point |-> p] :
        c \in { << [state |-> "absent", data |-> EmptyDict], StoreOneTurn >>,
                << [state |-> "json", data |-> StoreOneTurn], StoreTurnAndComplaint >> },
        p \in SavePoints }

FormatCalls ==
    { [fn |-> "format", j |-> Verdict(r, c, "r1")] : r \in {"FAKE"}, c \in 0..MaxConfidence }

\* The process starts on a file: bot_user_data = load_user_data().
ApplyLoad ==
    /\ call.fn = "load"
    /\ ret = NoCall
    /\ ret' = [fn |-> "load", out |-> load_user_data(call.file)]
    /\ UNCHANGED <<bot_user_data, file, turns, reds, save_failures, last, call, threads>>

\* The process stops inside save_user_data and starts again.
ApplySaveCrash ==
    /\ call.fn = "save_crash"
    /\ ret = NoCall
    /\ ret' = [fn |-> "save_crash",
               out |-> load_user_data(
                           save_user_data_interrupted(call.file, call.data, call.point))]
    /\ UNCHANGED <<bot_user_data, file, turns, reds, save_failures, last, call, threads>>

ApplyFormat ==
    /\ call.fn = "format"
    /\ ret = NoCall
    /\ ret' = [fn |-> "format", out |-> format_analysis_reply(call.j)]
    /\ UNCHANGED <<bot_user_data, file, turns, reds, save_failures, last, call, threads>>

---------------------------------------------------------------------------
(* Two handlers on two threads.  TeleBot runs the handlers on worker        *)
(* threads (line 59, line 302), so the statements of handle_chat (lines     *)
(* 283-294) and of the RED branch of run_analysis (lines 186-188) of two    *)
(* updates can interleave.  A step is one read or write of the store or of  *)
(* the file; the collaborators do not raise here, except that the model     *)
(* can fail to answer.                                                      *)

\* The handlers of the two-thread runs.
ThreadOps == {"chat", "analysis"}

Running(t) == threads[t].pc \notin {"ready", "done"}

\* The text of the message thread t handles, and the turn it appends.
ThreadText(t) == <<"message", ToString(t)>>

ThreadTurn(t) == TurnEntries(ThreadText(t), <<"answer", ToString(t)>>)

\* The mutant of RecordMissing: the test always succeeds.
RecordMissingAlways(data, u) == TRUE

\* Line 283: user_id_str not in bot_user_data
RecordMissing(data, u) == u \notin DOMAIN data

\* The store gets a new list object for u: a thread other than t whose
\* `history` was the old list keeps the old list, with its content.
DetachLists(th, t, u, data) ==
    [s \in ThreadIds |->
        IF s # t /\ th[s].user = u /\ th[s].hlive
        THEN [th[s] EXCEPT !.hlive = FALSE,
                           !.hval = DictGet(DictGet(data, u, EmptyDict), "history", <<>>)]
        ELSE th[s]]

\* The store gets a new record object for u: as DetachLists, and a record
\* that setdefault returned to another thread is no longer the store's.
DetachRecord(th, t, u, data) ==
    [s \in ThreadIds |->
        IF s # t /\ th[s].user = u
        THEN [DetachLists(th, t, u, data)[s] EXCEPT !.rlive = FALSE]
        ELSE th[s]]

\* A worker thread takes an update: a chat message or a /search of a user.
take_update(t, op, u) ==
    /\ threads[t].pc = "ready"
    /\ LET overlap == \E s \in ThreadIds \ {t} : Running(s)
       IN  threads' = [s \in ThreadIds |->
               IF s = t
               THEN [threads[t] EXCEPT !.pc = IF op = "chat" THEN "chat_test"
                                                ELSE "analysis_call",
                                       !.op = op, !.user = u, !.overlapped = overlap]
               ELSE [threads[s] EXCEPT !.overlapped = @ \/ Running(s)]]
    /\ UNCHANGED <<bot_user_data, file, turns, reds, save_failures, last, call, ret>>

\* Line 283: the membership test.
chat_test(t) ==
    /\ threads[t].pc = "chat_test"
    /\ LET missing == RecordMissing(bot_user_data, threads[t].user)
       IN  threads' = [threads EXCEPT ![t].missing = missing,
                                      ![t].pc = IF missing THEN "chat_create" ELSE "chat_read"]
    /\ UNCHANGED <<bot_user_data, file, turns, reds, save_failures, last, call, ret>>

\* Line 284: bot_user_data[user_id_str] = {"history": []}
chat_create(t) ==
    /\ threads[t].pc = "chat_create"
    /\ LET u == threads[t].user
       IN  /\ bot_user_data' = DictSet(bot_user_data, u, [history |-> <<>>])
           /\ threads' = [DetachRecord(threads, t, u, bot_user_data)
                             EXCEPT ![t].pc = "chat_read"]
    /\ UNCHANGED <<file, turns, reds, save_failures, last, call, ret>>

\* Line 285: history = bot_user_data[user_id_str].get("history", []): the
\* record's list itself, or a new list when the record has none.
chat_read(t) ==
    /\ threads[t].pc = "chat_read"
    /\ threads' = [threads EXCEPT
                      ![t].hlive = "history" \in DOMAIN bot_user_data[threads[t].user],
                      ![t].hval = <<>>,
                      ![t].pc = "chat_call"]
    /\ UNCHANGED <<bot_user_data, file, turns, reds, save_failures, last, call, ret>>

\* Lines 286-288: the model is asked, the response is sent and looked at.
chat_call(t) ==
    /\ threads[t].pc = "chat_call"
    /\ \E remote \in ChatRemotes(t) :
       \E r \in call_gemini_for_chat(ThreadText(t), threads[t].hval, remote) :
           threads' = [threads EXCEPT
                          ![t].pc = IF r.raised \/ Contains(r.val, Marker)
                                    THEN "done" ELSE "chat_extend"]
    /\ UNCHANGED <<bot_user_data, file, turns, reds, save_failures, last, call, ret>>

\* Lines 289-292: history.extend(..), in place.
chat_extend(t) ==
    /\ threads[t].pc = "chat_extend"
    /\ LET u == threads[t].user
       IN  IF threads[t].hlive
           THEN /\ bot_user_data' =
                       DictSet(bot_user_data, u,
                               DictSet(bot_user_data[u], "history",
                                       bot_user_data[u].history \o ThreadTurn(t)))
                /\ threads' = [threads EXCEPT ![t].pc = "chat_assign"]
           ELSE /\ threads' = [threads EXCEPT ![t].hval = @ \o ThreadTurn(t),
                                              ![t].pc = "chat_assign"]
                /\ UNCHANGED bot_user_data
    /\ UNCHANGED <<file, turns, reds, save_failures, last, call, ret>>

\* Line 293: bot_user_data[user_id_str]["history"] = history[-CHAT_HISTORY_LIMIT:]
chat_assign(t) ==
    /\ threads[t].pc = "chat_assign"
    /\ LET u == threads[t].user
           history == IF threads[t].hlive THEN bot_user_data[u].history ELSE threads[t].hval
       IN  /\ bot_user_data' =
                  DictSet(bot_user_data, u,
                          DictSet(bot_user_data[u], "history", LastN(history, CHAT_HISTORY_LIMIT)))
           /\ threads' = [DetachLists(threads, t, u, bot_user_data)
                             EXCEPT ![t].pc = "save_open", ![t].hlive = FALSE,
                                    ![t].hval = <<>>, ![t].completed = TRUE]
    /\ UNCHANGED <<file, turns, reds, save_failures, last, call, ret>>

\* Lines 181-185: the placeholder, the gateway, the colour of the verdict.
analysis_call(t) ==
    /\ threads[t].pc = "analysis_call"
    /\ \E g \in GatewayResults("win", FALSE) :
           LET red == /\ ~g.raised
                      /\ ~format_analysis_reply(g.val).raised
                      /\ get_result_color(g.val) = "RED"
           IN  threads' = [threads EXCEPT
                              ![t].pc = IF red THEN "analysis_setdefault" ELSE "done",
                              ![t].verdict = IF red THEN g.val ELSE PyNone]
    /\ UNCHANGED <<bot_user_data, file, turns, reds, save_failures, last, call, ret>>

\* Line 187, the call: bot_user_data.setdefault(user_id_str, {})
analysis_setdefault(t) ==
    /\ threads[t].pc = "analysis_setdefault"
    /\ LET u == threads[t].user
       IN  bot_user_data' = IF u \in DOMAIN bot_user_data THEN bot_user_data
                            ELSE DictSet(bot_user_data, u, EmptyDict)
    /\ threads' = [threads EXCEPT ![t].rlive = TRUE, ![t].pc = "analysis_setitem"]
    /\ UNCHANGED <<file, turns, reds, save_failures, last, call, ret>>

\* Line 187, the assignment: (the record)["last_complaint"] = complaint_text
analysis_setitem(t) ==
    /\ threads[t].pc = "analysis_setitem"
    /\ LET u == threads[t].user
       IN  bot_user_data' =
               IF threads[t].rlive
               THEN StoreComplaint(bot_user_data, u, ComplaintText("win", threads[t].verdict))
               ELSE bot_user_data
    /\ threads' = [threads EXCEPT ![t].rlive = FALSE, ![t].completed = TRUE,
                                  ![t].pc = "save_open"]
    /\ UNCHANGED <<file, turns, reds, save_failures, last, call, ret>>

\* Line 52: open("user_data.json", "w") truncates the file.
save_open(t) ==
    /\ threads[t].pc = "save_open"
    /\ file' = [state |-> "partial", data |-> EmptyDict]
    /\ threads' = [threads EXCEPT ![t].pc = "save_dump"]
    /\ UNCHANGED <<bot_user_data, turns, reds, save_failures, last, call, ret>>

\* Line 53: json.dump writes the store as it is now; the handler then ends.
save_dump(t) ==
    /\ threads[t].pc = "save_dump"
    /\ file' = [state |-> "json", data |-> bot_user_data]
    /\ threads' = [threads EXCEPT ![t].pc = "done"]
    /\ UNCHANGED <<bot_user_data, turns, reds, save_failures, last, call, ret>>

\* The store a RED analysis of u1 leaves: a record without a history.
StoreComplaintOnly ==
    StoreComplaint(EmptyDict, "u1", ComplaintText("win", Verdict("FAKE", 65, "scam")))

---------------------------------------------------------------------------
(* The specifications *)

Next ==
    \/ \E u \in Users : send_welcome(u)
    \/ \E u \in Users, text \in SearchTexts : search_command(u, text)
    \/ \E u \in Users : complaint_cmd(u)
    \/ \E u \in Users, caption \in Captions : handle_photo(u, caption)
    \/ \E u \in Users : handle_chat(u)
    \/ next_update

Spec == Init /\ [][Next]_vars

\* The harness: the same state, and a function call drawn at the start.
InitPure ==
    /\ bot_user_data = EmptyDict
    /\ file = [state |-> "absent", data |-> EmptyDict]
    /\ turns = [u \in Users |-> <<>>]
    /\ reds = [u \in Users |-> <<>>]
    /\ save_failures = 0
    /\ last = Idle
    /\ call \in ColorCalls \cup GatewayCalls \cup LoadCalls \cup CrashCalls \cup FormatCalls
    /\ ret = NoCall
    /\ threads = [t \in ThreadIds |-> ThreadReady]

NextPure == ApplyColor \/ ApplyGateway \/ ApplyLoad \/ ApplySaveCrash \/ ApplyFormat

SpecPure == InitPure /\ [][NextPure]_vars

\* The two threads start on the empty store or on the store an earlier RED
\* analysis left.
InitThreads ==
    /\ \/ bot_user_data = EmptyDict /\ file = [state |-> "absent", data |-> EmptyDict]
       \/ bot_user_data = StoreComplaintOnly
          /\ file = [state |-> "json", data |-> StoreComplaintOnly]
    /\ turns = [u \in Users |-> <<>>]
    /\ reds = [u \in Users |-> <<>>]
    /\ save_failures = 0
    /\ last = Idle
    /\ call = NoCall
    /\ ret = NoCall
    /\ threads = [t \in ThreadIds |-> ThreadReady]

NextThreads ==
    \E t \in ThreadIds :
        \/ \E op \in ThreadOps, u \in Users : take_update(t, op, u)
        \/ chat_test(t)
        \/ chat_create(t)
        \/ chat_read(t)
        \/ chat_call(t)
        \/ chat_extend(t)
        \/ chat_assign(t)
        \/ analysis_call(t)
        \/ analysis_setdefault(t)
        \/ analysis_setitem(t)
        \/ save_open(t)
        \/ save_dump(t)

SpecThreads == InitThreads /\ [][NextThreads]_vars

---------------------------------------------------------------------------
(* Properties *)

\* The history a user's record holds: record.get("history", []).
HistoryOf(data, u) == DictGet(DictGet(data, u, EmptyDict), "history", <<>>)

\* Whether a user's record holds a complaint.
HasComplaint(data, u) == "last_complaint" \in DOMAIN DictGet(data, u, EmptyDict)

AnalysisOps == {"search", "photo_search"}

\* C1: from the empty store, a user's stored history has at most 6 entries and
\* is the last (up to 6) entries, in order, of the entries of the user's
\* successful chat turns.
C1_HistoryIsLastSix ==
    \A u \in Users :
        /\ Len(HistoryOf(bot_user_data, u)) <= 6
        /\ HistoryOf(bot_user_data, u) =
               SubSeq(turns[u], Max(1, Len(turns[u]) - 5), Len(turns[u]))

\* C1's case: a user made more turns than the history keeps.
C1_Witness ==
    \E u \in Users : Len(turns[u]) > 6 /\ Len(HistoryOf(bot_user_data, u)) = 6

\* C2: on {FAKE, REAL, UNSURE} x 0..100, get_result_color is RED exactly for
\* FAKE with confidence >= 65, GREEN exactly for REAL with confidence >= 60,
\* YELLOW otherwise.
C2_ColorThresholds ==
    ret.fn = "color" =>
        LET result == call.j[2].result[2]
            confidence == call.j[2].confidence[2]
        IN  /\ ret.val \in {"RED", "GREEN", "YELLOW"}
            /\ ret.val = "RED" <=> (result = "FAKE" /\ confidence >= 65)
            /\ ret.val = "GREEN" <=> (result = "REAL" /\ confidence >= 60)

\* C2's case: FAKE at the threshold itself is RED.
C2_Witness ==
    /\ ret.fn = "color"
    /\ call.j = Verdict("FAKE", 65, "r1")
    /\ ret.val = "RED"

\* The complaint text the claims expect for a RED analysis: content and reason.
ExpectedComplaint(content, verdict) ==
    <<"Content: ", content, "AI Analysis: ", verdict[2].reason[2]>>

\* C3: /complaint by user u replies with the complaint text of u's latest RED
\* analysis, and with the nothing-found message if u had none.
C3_ComplaintIsLatestRed ==
    last.op = "complaint" =>
        LET red == reds[last.user]
        IN  last.calls =
              << [api  |-> "reply_to",
                  text |-> IF red = <<>> THEN [kind |-> "no_complaint"]
                           ELSE [kind |-> "complaint",
                                 complaint |-> ExpectedComplaint(red[1].content,
                                                                 red[1].verdict)]] >>

\* C3's case: both users had a RED analysis, of different contents, and one
\* asks for the complaint.
C3_Witness ==
    /\ last.op = "complaint"
    /\ last.user = "u1"
    /\ reds["u1"] # <<>>
    /\ reds["u2"] # <<>>
    /\ reds["u1"][1].content # reds["u2"][1].content

\* C4: a record holds a complaint only after a RED analysis of that user,
\* and no step removes a complaint from the in-memory store.
C4_ComplaintOnlyFromRedAndKept ==
    [][\A u \in Users :
          /\ HasComplaint(bot_user_data', u) => reds'[u] # <<>>
          /\ HasComplaint(bot_user_data, u) => HasComplaint(bot_user_data', u)]_vars

\* C4's case: a chat turn of a user whose record holds a complaint was appended.
C4_Witness ==
    /\ last.op = "chat"
    /\ HasComplaint(bot_user_data, last.user)
    /\ Len(HistoryOf(bot_user_data, last.user)) > 0

\* C5: a chat turn whose response holds the error marker leaves the user's
\* history in the store and the file as they were, and rewrites no file.
C5_MarkedTurnNotAppended ==
    [][(last'.op = "chat" /\ Contains(last'.response, "WARNING_SIGN")) =>
          /\ HistoryOf(bot_user_data', last'.user) = HistoryOf(bot_user_data, last'.user)
          /\ file' = file
          /\ last'.writes = 0]_vars

\* C5's case: the model's own answer held the marker, after earlier turns.
C5_Witness ==
    /\ last.op = "chat"
    /\ Contains(last.response, "WARNING_SIGN")
    /\ last.response # ChatError
    /\ ~last.raised
    /\ Len(HistoryOf(bot_user_data, last.user)) > 0

\* C6: an analysis of empty text and no image never calls the model, has the
\* verdict UNSURE with confidence 0, classifies YELLOW and stores nothing.
C6_EmptyContentShortCircuits ==
    [][(last'.op \in AnalysisOps /\ last'.content = "" /\ ~last'.img /\ last'.phase # "NONE") =>
          /\ ~last'.called
          /\ last'.verdict[2].result = Str("UNSURE")
          /\ last'.verdict[2].confidence = Num(0)
          /\ last'.color = "YELLOW"
          /\ bot_user_data' = bot_user_data
          /\ file' = file]_vars

\* C6's case: /search with no argument ran to its reply.
C6_Witness ==
    /\ last.op = "search"
    /\ last.content = ""
    /\ last.phase = "SUCCEEDED"

\* Valid JSON of the verdict's shape: an object whose result, if any, is one
\* of the three words and whose confidence, if any, is a number.
HasVerdictShape(v) ==
    /\ v[1] = "obj"
    /\ DictGet(v[2], "result", Str("UNSURE")) \in {Str(r) : r \in Results}
    /\ DictGet(v[2], "confidence", Num(0))[1] = "num"

\* The remote outcomes C7 lists: an error, a blocked answer, text that is
\* not JSON, JSON that is not a verdict.
IsRemoteFailure(remote) ==
    \/ remote.kind \in {"raise", "blocked"}
    \/ remote.kind = "text" /\ remote.text[1] # "json"
    \/ remote.kind = "text" /\ remote.text[1] = "json" /\ ~HasVerdictShape(remote.text[2])

\* C7: for every such outcome, with content to analyse, the gateway returns
\* the fallback verdict (UNSURE, 40, no red flags) and does not raise.
\* Stated for the runs in which the log file can be written.
C7_FailuresBecomeFallback ==
    (/\ ret.fn = "gateway"
     /\ call.query # "" \/ call.img
     /\ call.logRaw /\ call.logErr
     /\ IsRemoteFailure(call.remote)) =>
        /\ ~ret.out.raised
        /\ ret.out.val[1] = "obj"
        /\ ret.out.val[2].result = Str("UNSURE")
        /\ ret.out.val[2].confidence = Num(40)
        /\ ret.out.val[2].red_flags = Arr(<<>>)

\* C8: an analysis request makes no more than two outbound messaging calls.
C8_AtMostTwoCalls ==
    last.op \in AnalysisOps => Len(last.calls) <= 2

\* Whether the handler's last messaging call was the generic error edit.
SentGenericError(l) ==
    /\ Len(l.calls) > 0
    /\ l.calls[Len(l.calls)] = [api |-> "edit_message_text", text |-> [kind |-> "analysis_error"]]

\* C9: an analysis that ends in the FAILED branch leaves the store and the
\* file as they were before the request.
C9_FailedLeavesStateAlone ==
    [][(last'.op \in AnalysisOps /\ last'.phase = "FAILED" /\ SentGenericError(last')) =>
          /\ bot_user_data' = bot_user_data
          /\ file' = file]_vars

\* The final reply of an analysis: the text of its last edit.
FinalReply(l) == l.calls[Len(l.calls)].text.reply

\* C10: for an analysis that SUCCEEDED, RED goes with the complaint written
\* to the user's record and to the file and with the Red Flag title and the
\* /complaint line; GREEN and YELLOW go with their label, no such line and
\* an unchanged store.
C10_RedEffectsTogether ==
    [][(last'.op \in AnalysisOps /\ last'.phase = "SUCCEEDED") =>
          LET u == last'.user
              reply == FinalReply(last')
              complaint == ExpectedComplaint(last'.content, last'.verdict)
          IN  /\ last'.color \in {"RED", "GREEN", "YELLOW"}
              /\ last'.color = "RED" =>
                    /\ HasComplaint(bot_user_data', u)
                    /\ bot_user_data'[u].last_complaint = complaint
                    /\ file'.state = "json"
                    /\ HasComplaint(file'.data, u)
                    /\ file'.data[u].last_complaint = complaint
                    /\ reply.flag = "Red Flag"
                    /\ reply.cta
              /\ last'.color = "GREEN" =>
                    /\ reply.flag = "Green Flag"
                    /\ ~reply.cta
                    /\ bot_user_data' = bot_user_data
                    /\ file' = file
              /\ last'.color = "YELLOW" =>
                    /\ reply.flag = "Yellow Flag"
                    /\ ~reply.cta
                    /\ bot_user_data' = bot_user_data
                    /\ file' = file]_vars

\* C10's case: a photo analysis classified RED ran to its reply.
C10_Witness ==
    /\ last.op = "photo_search"
    /\ last.phase = "SUCCEEDED"
    /\ last.color = "RED"


\* Whether a file is absent or malformed: no file, a text that is no JSON
\* document, or a JSON document that is not an object.
AbsentOrMalformed(f) == f.state \in {"absent", "partial", "json_list"}

\* C11: when the process starts on an absent or malformed state file, the
\* store it loads is the empty mapping.
C11_MalformedFileLoadsEmpty ==
    (ret.fn = "load" /\ AbsentOrMalformed(call.file))
        => ret.out = [kind |-> "dict", val |-> EmptyDict]

\* What the gateway returns on a call when both log_event calls work.
WithWorkingLog(c) ==
    call_gemini_for_structured_analysis(c.query, c.img, c.remote, TRUE, TRUE)

\* C13: a failing log append does not change what the function does: with a
\* failing log_event call the gateway raises nothing and returns what it
\* returns when the log works.
C13_LogFailureNeverAborts ==
    (ret.fn = "gateway" /\ (~call.logRaw \/ ~call.logErr))
        => (~ret.out.raised /\ ret.out = WithWorkingLog(call))

\* C15: when the process stops inside save_user_data, the store loaded at the
\* next start is the store the file held before the save or the store that
\* was being saved.
C15_SaveIsAtomic ==
    ret.fn = "save_crash"
        => ret.out \in { load_user_data(call.file), [kind |-> "dict", val |-> call.data] }

\* The confidence of a format call and the filled cells of its reply.
FormatConfidence == call.j[2].confidence[2]

\* C19: the bar has 10 cells, and the filled ones are confidence/10
\* rounded to the nearest integer, a half rounded up.
C19_BarRoundsHalfUp ==
    ret.fn = "format"
        => /\ ~ret.out.raised
           /\ ret.out.filled + ret.out.empty = BAR_CELLS
           /\ BAR_CELLS * ret.out.filled - FormatConfidence \in (1 - (BAR_CELLS \div 2))..(BAR_CELLS \div 2)

\* C12: no exception escapes a handler when a collaborator fails; here for
\* handle_chat and the store file write: a chat turn during which
\* save_user_data failed ends without an exception.
C12_NoExceptionEscapes ==
    [][(last'.op = "chat" /\ save_failures' > save_failures) => ~last'.raised]_vars

\* C14: between handlers the persisted file holds the in-memory store (while
\* no write of the file has failed): the store a start of the process would
\* load is bot_user_data.
C14_FileHoldsStore ==
    save_failures = 0 => load_user_data(file) = [kind |-> "dict", val |-> bot_user_data]

\* A user's record, None when the store has none.
RecordOf(data, u) == DictGet(data, u, PyNone)

\* A user's complaint, None when the record has none.
ComplaintOf(data, u) == DictGet(DictGet(data, u, EmptyDict), "last_complaint", PyNone)

\* C17: a chat turn leaves every user's last_complaint as it was; an analysis
\* leaves every user's history as it was; /complaint, /start, /help and the
\* descriptive photo analysis leave the store and the file as they were; a
\* handler invoked for a user leaves the records of the other users as they
\* were.
C17_FrameEffects ==
    [][/\ last'.op = "chat" =>
              \A v \in Users : ComplaintOf(bot_user_data', v) = ComplaintOf(bot_user_data, v)
       /\ last'.op \in AnalysisOps =>
              \A v \in Users : HistoryOf(bot_user_data', v) = HistoryOf(bot_user_data, v)
       /\ last'.op \in {"complaint", "start", "photo_describe"} =>
              (bot_user_data' = bot_user_data /\ file' = file)
       /\ last'.op # "idle" =>
              \A v \in Users \ {last'.user} :
                  RecordOf(bot_user_data', v) = RecordOf(bot_user_data, v)]_vars

\* C17's case: a RED analysis of a user whose record holds a history ended,
\* while the other user's record holds a history and a complaint.
C17_Witness ==
    /\ last.op \in AnalysisOps
    /\ last.color = "RED"
    /\ last.phase = "SUCCEEDED"
    /\ \A u \in Users : HasComplaint(bot_user_data, u) /\ Len(HistoryOf(bot_user_data, u)) > 0

\* C18: every stored history is made of whole turns: its length is even and
\* its entries are by turns of the user and of the model, the user first.
C18_HistoryIsWholeTurns ==
    \A u \in Users :
        LET history == HistoryOf(bot_user_data, u)
        IN  /\ Len(history) % 2 = 0
            /\ \A i \in DOMAIN history :
                   history[i].role = IF i % 2 = 1 THEN "user" ELSE "model"

\* C18's case: a history was cut to 6 entries and begins with the user's
\* second message.
C18_Witness ==
    \E u \in Users :
        /\ Len(turns[u]) = 8
        /\ Len(HistoryOf(bot_user_data, u)) = CHAT_HISTORY_LIMIT
        /\ HistoryOf(bot_user_data, u)[1] = [role |-> "user", parts |-> << <<"message", "2">> >>]

\* Whether a history holds the two entries of a turn, one after the other.
HoldsTurn(history, turn) ==
    \E i \in 1..(Len(history) - 1) : history[i] = turn[1] /\ history[i + 1] = turn[2]

\* Whether a store holds the mutation thread t made: the turn of its chat
\* message, or a complaint of its user.
Kept(data, t) ==
    IF threads[t].op = "chat"
    THEN HoldsTurn(HistoryOf(data, threads[t].user), ThreadTurn(t))
    ELSE HasComplaint(data, threads[t].user)

BothFinished == \A t \in ThreadIds : threads[t].pc = "done"

\* C16: two handlers on two threads can lose a mutation one of them made
\* (C16_Witness is that state), and only by interleaving: once both have
\* finished, a mutation is missing from the store or from the file only if
\* one handler ran while the other did.
C16_LostOnlyWhenInterleaved ==
    (BothFinished /\ \A t \in ThreadIds : ~threads[t].overlapped)
        => \A t \in ThreadIds :
               threads[t].completed =>
                   /\ Kept(bot_user_data, t)
                   /\ file.state = "json"
                   /\ Kept(file.data, t)

\* C16's case: both handlers have finished, they ran interleaved, and the
\* mutation one of them made is in neither the store nor the file.
C16_Witness ==
    /\ BothFinished
    /\ \E t \in ThreadIds :
           /\ threads[t].completed
           /\ threads[t].overlapped
           /\ ~Kept(bot_user_data, t)
           /\ file.state = "json"
           /\ ~Kept(file.data, t)

====
